---- MODULE Spec2Model ----
(***************************************************************************)
(* Model of xmidt-org/skeleton, package internal/apiauth: construction of  *)
(* the Auth middleware (New, validate), the Basic and JWT validators, the  *)
(* per-request gate built from basculehttp, and the post-fetch expansion   *)
(* of keys that declare no signing algorithm (mapMissingAlgorithms).       *)
(***************************************************************************)
EXTENDS Integers, Sequences, FiniteSets, TLC

VARIABLES pc, config, auth, newErr, source, cache, now, req, resp,
          kpc, keySet, newKeys, mapErr

vars == <<pc, config, auth, newErr, source, cache, now, req, resp,
          kpc, keySet, newKeys, mapErr>>

authVars == <<pc, config, auth, newErr, source, cache, now, req, resp>>
keyVars == <<kpc, keySet, newKeys, mapErr>>

-----------------------------------------------------------------------------
(* Bounds of the model. *)

\* longest key set handed to mapMissingAlgorithms
MaxKeys == 2
\* the clock runs from 0 to MaxTime
MaxTime == 2

-----------------------------------------------------------------------------
(* Keys and key sets (jwk.Key, jwk.Set).  A set is the sequence of its    *)
(* keys in insertion order, which is the order Keys(ctx) iterates in.     *)

KeyIDs == {"k1", "k2"}

Key(kid, kty, crv, alg, private) ==
    [kid |-> kid, kty |-> kty, crv |-> crv, alg |-> alg, private |-> private,
     mat |-> "m1"]

RSAAlgs == <<"RS256", "RS384", "RS512", "PS256", "PS384", "PS512">>

SupportedCurves == {"P-256", "P-384", "P-521"}

\* CurveAlg with the P-384 case answering as the P-256 case does.
CurveAlgP384As256(crv) ==
    CASE crv = "P-256" -> <<"ES256">>
      [] crv = "P-384" -> <<"ES256">>
      [] crv = "P-521" -> <<"ES512">>
      [] OTHER -> <<>>

\* The curve switch of keyToAlgs: the one algorithm of a supported curve.
CurveAlg(crv) ==
    CASE crv = "P-256" -> <<"ES256">>
      [] crv = "P-384" -> <<"ES384">>
      [] crv = "P-521" -> <<"ES512">>
      [] OTHER -> <<>>

\* keyToAlgs with the PSS variants left out of the RSA list.
keyToAlgsNoPSS(key) ==
    CASE key.kty = "RSA" -> [algs |-> <<"RS256", "RS384", "RS512">>, err |-> ""]
      [] key.kty = "OKP" -> [algs |-> <<"EdDSA">>, err |-> ""]
      [] key.kty = "EC" /\ key.crv \in SupportedCurves ->
            [algs |-> CurveAlg(key.crv), err |-> ""]
      [] OTHER -> [algs |-> <<>>, err |-> "unsupported key type"]

\* keyToAlgs without the jwa.OKP case.
keyToAlgsNoOKP(key) ==
    CASE key.kty = "RSA" -> [algs |-> RSAAlgs, err |-> ""]
      [] key.kty = "EC" /\ key.crv \in SupportedCurves ->
            [algs |-> CurveAlg(key.crv), err |-> ""]
      [] OTHER -> [algs |-> <<>>, err |-> "unsupported key type"]

\* keyToAlgs: the algorithms a key supports, or an error.
keyToAlgs(key) ==
    CASE key.kty = "RSA" -> [algs |-> RSAAlgs, err |-> ""]
      [] key.kty = "OKP" -> [algs |-> <<"EdDSA">>, err |-> ""]
      [] key.kty = "EC" /\ key.crv \in SupportedCurves ->
            [algs |-> CurveAlg(key.crv), err |-> ""]
      [] OTHER -> [algs |-> <<>>, err |-> "unsupported key type"]

\* key.Clone() followed by keyDup.Set(jwk.AlgorithmKey, alg), one per alg.
Clones(key, algs) ==
    [i \in 1..Len(algs) |-> [key EXCEPT !.alg = algs[i]]]

RECURSIVE mapLoopExpandsAll(_, _, _)
\* mapLoop without the test for a declared algorithm: every key is expanded
\* by its type.
mapLoopExpandsAll(ks, i, acc) ==
    IF i > Len(ks) THEN [set |-> acc, err |-> ""]
    ELSE LET r == keyToAlgs(ks[i]) IN
         IF r.err # "" THEN [set |-> ks, err |-> r.err]
         ELSE mapLoopExpandsAll(ks, i + 1, acc \o Clones(ks[i], r.algs))

RECURSIVE mapLoop(_, _, _)
\* The loop of mapMissingAlgorithms over keySet from position i on, with
\* the keys added to newKeys so far.  Any error returns the input set.
mapLoop(ks, i, acc) ==
    IF i > Len(ks) THEN [set |-> acc, err |-> ""]
    ELSE IF ks[i].alg # "" THEN mapLoop(ks, i + 1, Append(acc, ks[i]))
    ELSE LET r == keyToAlgs(ks[i]) IN
         IF r.err # "" THEN [set |-> ks, err |-> r.err]
         ELSE mapLoop(ks, i + 1, acc \o Clones(ks[i], r.algs))

mapMissingAlgorithms(ks) == mapLoop(ks, 1, <<>>)

\* The input set after a loop that sets the algorithm on the key itself
\* instead of on a clone.
keySetAfterSetOnKey(ks) ==
    [i \in 1..Len(ks) |->
        IF ks[i].alg = "" /\ keyToAlgs(ks[i]).err = ""
        THEN [ks[i] EXCEPT !.alg = keyToAlgs(ks[i]).algs[Len(keyToAlgs(ks[i]).algs)]]
        ELSE ks[i]]

\* The input set after mapMissingAlgorithms: the algorithm is set on
\* keyDup, the clone, and a key that declares one is added as it is, so the
\* keys of the input are what they were.
keySetAfter(ks) == ks

-----------------------------------------------------------------------------
(* Inputs of the key-expansion specification. *)

DeclaredAlg(kty, crv) ==
    CASE kty = "RSA" -> "RS256"
      [] kty = "OKP" -> "EdDSA"
      [] kty = "oct" -> "HS256"
      [] kty = "EC" /\ crv \in SupportedCurves -> CurveAlg(crv)[1]
      [] OTHER -> "ES256K"

KeyForms ==
    {<<"RSA", "", TRUE>>, <<"RSA", "", FALSE>>,
     <<"EC", "P-256", TRUE>>, <<"EC", "P-256", FALSE>>,
     <<"EC", "P-384", TRUE>>, <<"EC", "P-384", FALSE>>,
     <<"EC", "P-521", TRUE>>, <<"EC", "P-521", FALSE>>,
     <<"EC", "secp256k1", FALSE>>,
     <<"OKP", "Ed25519", FALSE>>,
     <<"oct", "", FALSE>>}

KeyShapes ==
    {Key(kid, f[1], f[2], a, f[3]) :
        kid \in KeyIDs, f \in KeyForms, a \in {"", "declared"}}

FetchedKeys ==
    {[k EXCEPT !.alg = IF k.alg = "" THEN "" ELSE DeclaredAlg(k.kty, k.crv)] :
        k \in KeyShapes}

KeySets == UNION {[1..n -> FetchedKeys] : n \in 0..MaxKeys}

-----------------------------------------------------------------------------
(* Configuration (Config, JWT, Provider, Basic).  A Go map or slice is    *)
(* either nil or a value, possibly empty; reflect.DeepEqual tells the two *)
(* apart, so both are kept.                                               *)

Users == {"alice", "bob"}
Passwords == {"secret", "wrong"}
Capabilities == {"read", "write", "admin"}

\* Basic: nil, or a table of <<username, password>> entries.
NilBasic == [isNil |-> TRUE, tbl |-> {}]
BasicTable(t) == [isNil |-> FALSE, tbl |-> t]

\* []string: nil, or a list.
NilCaps == [isNil |-> TRUE, list |-> <<>>]
CapList(l) == [isNil |-> FALSE, list |-> l]

KeysURL == "https://keys.example/jwks"

\* arrangehttp.ClientConfig: the zero value, valid settings, or settings
\* from which NewClient cannot build a client.
ClientConfigs == {"zero", "custom", "invalid"}

Provider(url, interval, client, noAuto) ==
    [URL |-> url, RefreshInterval |-> interval, HTTPClient |-> client,
     DisableAutoAddMissingAlgorithm |-> noAuto]

ZeroProvider == Provider("", 0, "zero", FALSE)

ZeroJWT == [KeyProvider |-> ZeroProvider, RequiredServiceCapabilities |-> NilCaps]

\* Config{}
ZeroConfig == [Disable |-> FALSE, Basic |-> NilBasic, JWT |-> ZeroJWT]

BasicValues == {NilBasic, BasicTable({}), BasicTable({<<"alice", "secret">>})}

CapsValues ==
    {NilCaps, CapList(<<>>), CapList(<<"read">>), CapList(<<"admin", "read">>)}

RefreshIntervals == {0, 15}

AllConfigs ==
    {[Disable |-> d, Basic |-> b,
      JWT |-> [KeyProvider |-> Provider(u, ri, hc, na),
               RequiredServiceCapabilities |-> rc]] :
        d \in BOOLEAN, b \in BasicValues, u \in {"", KeysURL},
        ri \in RefreshIntervals, hc \in ClientConfigs, na \in BOOLEAN,
        rc \in CapsValues}

\* The configurations requests are served under: the refresh interval and
\* the HTTP client settings do not reach request handling.
Configs ==
    {c \in AllConfigs :
        /\ c.JWT.KeyProvider.HTTPClient = "zero"
        /\ c.JWT.KeyProvider.RefreshInterval =
                (IF c.JWT.KeyProvider.URL = "" THEN 0 ELSE 15)}

\* validate comparing only the Basic table when Disable is set.
validateBasicOnly(c) ==
    IF c.Disable /\ ~c.Basic.isNil THEN "ErrInvalidConfig"
    ELSE IF c = ZeroConfig THEN "ErrInvalidConfig"
    ELSE ""

\* validate without the check for the empty configuration.
validateNoEmptyCheck(c) ==
    IF c.Disable /\ c # [ZeroConfig EXCEPT !.Disable = TRUE]
        THEN "ErrInvalidConfig"
    ELSE ""

\* validate(): the option New appends after the caller's options.
validate(c) ==
    IF c.Disable /\ c # [ZeroConfig EXCEPT !.Disable = TRUE]
        THEN "ErrInvalidConfig"
    ELSE IF c = ZeroConfig THEN "ErrInvalidConfig"
    ELSE ""

\* Provider.toKeySet: registers the URL with a new cache; nothing is
\* fetched here.  It fails when the HTTP client cannot be built.
toKeySet(p) ==
    IF p.HTTPClient = "invalid" THEN "client error" ELSE ""

\* JWT.middleware: the key set, the bearer parser, the middleware.
JWTmiddleware(j) ==
    IF toKeySet(j.KeyProvider) # "" THEN [m |-> "nil", err |-> "error creating jwt middleware"]
    ELSE [m |-> "jwt", err |-> ""]

\* Basic.middleware: the basic parser, the middleware.
Basicmiddleware(b) == [m |-> "basic", err |-> ""]

NoAuth == [built |-> FALSE, middleware |-> "nil", config |-> ZeroConfig]

\* New building the Basic middleware last, so that Basic wins over JWT.
NewAuthBasicLast(c) ==
    IF validate(c) # "" THEN [auth |-> NoAuth, err |-> validate(c)]
    ELSE LET j == JWTmiddleware(c.JWT)
             m1 == IF c.JWT.KeyProvider.URL # "" THEN j.m ELSE "nil"
         IN  IF c.JWT.KeyProvider.URL # "" /\ j.err # ""
                THEN [auth |-> NoAuth, err |-> j.err]
             ELSE IF ~c.Basic.isNil
                THEN [auth |-> [built |-> TRUE,
                                middleware |-> Basicmiddleware(c.Basic).m,
                                config |-> c],
                      err |-> ""]
             ELSE [auth |-> [built |-> TRUE, middleware |-> m1, config |-> c],
                   err |-> ""]

\* New(WithConfig(c)): the Auth returned, or the error.
NewAuth(c) ==
    IF validate(c) # "" THEN [auth |-> NoAuth, err |-> validate(c)]
    ELSE LET m1 == IF ~c.Basic.isNil THEN Basicmiddleware(c.Basic).m ELSE "nil"
             j == JWTmiddleware(c.JWT)
         IN  IF c.JWT.KeyProvider.URL # ""
                THEN IF j.err # "" THEN [auth |-> NoAuth, err |-> j.err]
                     ELSE [auth |-> [built |-> TRUE, middleware |-> j.m, config |-> c],
                           err |-> ""]
                ELSE [auth |-> [built |-> TRUE, middleware |-> m1, config |-> c],
                      err |-> ""]

\* Auth.Protected
Protected(a) == a.middleware # "nil"

-----------------------------------------------------------------------------
(* Requests: the Authorization header and, for Bearer, the token.         *)

\* A bearer credential: a compact JWT with its header (kid, alg), the key
\* material that signed it and its claims, or a string that is no JWT.
Token(form, kid, alg, signedBy, nbf, exp, sub, caps) ==
    [form |-> form, kid |-> kid, alg |-> alg, signedBy |-> signedBy,
     nbf |-> nbf, exp |-> exp, sub |-> sub, caps |-> caps]

NoToken == Token("none", "", "", "", 0, 0, "", NilCaps)
Garbage == Token("garbage", "", "", "", 0, 0, "", NilCaps)

TokenCaps == {NilCaps, CapList(<<"write">>), CapList(<<"write", "read">>)}

JWTs ==
    {Token("jwt", kid, alg, m, 1, 2, "test-subject", c) :
        kid \in KeyIDs, alg \in {"RS256", "PS256"}, m \in {"m1", "forged"},
        c \in TokenCaps}

Header(kind, user, pass, token) ==
    [kind |-> kind, user |-> user, pass |-> pass, token |-> token]

NoHeader == Header("none", "", "", NoToken)

Requests ==
    {NoHeader, Header("digest", "", "", NoToken)}
    \cup {Header("basic", u, p, NoToken) : u \in Users, p \in Passwords}
    \cup {Header("bearer", "", "", t) : t \in JWTs \cup {Garbage}}

\* What one request came to: the status the middleware wrote (0 when it
\* wrote none), how often the protected handler ran, the principal put on
\* the request, and the error written as the body.
NoResponse == [status |-> 0, invoked |-> 0, principal |-> "", err |-> ""]

-----------------------------------------------------------------------------
(* The remote key source and the key cache (jwk.Cache, jwk.NewCachedSet). *)

Down == [up |-> FALSE, keys |-> <<>>]
Serving(ks) == [up |-> TRUE, keys |-> ks]

Sources ==
    {Down,
     Serving(<<Key("k1", "RSA", "", "", FALSE)>>),
     Serving(<<Key("k1", "RSA", "", "RS256", FALSE)>>),
     Serving(<<Key("k2", "oct", "", "", FALSE), Key("k1", "RSA", "", "RS256", FALSE)>>)}

EmptyCache == [fetched |-> FALSE, keys |-> <<>>]

\* Fetch with the post-fetcher always registered, whatever the
\* configuration says.
FetchAlwaysMaps(src, p) ==
    IF ~src.up THEN [ok |-> FALSE, keys |-> <<>>]
    ELSE LET r == mapMissingAlgorithms(src.keys) IN
         IF r.err # "" THEN [ok |-> FALSE, keys |-> <<>>]
         ELSE [ok |-> TRUE, keys |-> r.set]

\* Fetch with no post-fetcher registered, whatever the configuration says.
FetchNoPostFetcher(src, p) ==
    IF ~src.up THEN [ok |-> FALSE, keys |-> <<>>]
    ELSE [ok |-> TRUE, keys |-> src.keys]

\* One fetch of the registered URL with the options toKeySet registered:
\* the post-fetcher runs unless DisableAutoAddMissingAlgorithm is set, and
\* its error fails the fetch.
Fetch(src, p) ==
    IF ~src.up THEN [ok |-> FALSE, keys |-> <<>>]
    ELSE IF p.DisableAutoAddMissingAlgorithm THEN [ok |-> TRUE, keys |-> src.keys]
    ELSE LET r == mapMissingAlgorithms(src.keys) IN
         IF r.err # "" THEN [ok |-> FALSE, keys |-> <<>>]
         ELSE [ok |-> TRUE, keys |-> r.set]

\* A read of the cached set: the cached value, or a first fetch made on
\* the spot when nothing was fetched yet.
CacheGet(c, src, p) ==
    IF c.fetched THEN c
    ELSE LET f == Fetch(src, p) IN
         IF f.ok THEN [fetched |-> TRUE, keys |-> f.keys] ELSE c

-----------------------------------------------------------------------------
(* Errors and their status codes. *)

StatusBadRequest == 400
StatusUnauthorized == 401
StatusForbidden == 403

ErrMissingCredentials == "ErrMissingCredentials"
ErrBadCredentials == "ErrBadCredentials"
ErrUnauthorized == "ErrUnauthorized"
UnsupportedSchemeError == "UnsupportedSchemeError"
JWTParseError == "jwt.ParseString error"

\* The status code of an error of the authenticator built by NewMiddleware
\* with no error coder configured.
StatusOf(err) ==
    CASE err = ErrMissingCredentials -> StatusUnauthorized
      [] err = UnsupportedSchemeError -> StatusUnauthorized
      [] err = ErrBadCredentials -> StatusUnauthorized
      [] err = ErrUnauthorized -> StatusForbidden
      [] OTHER -> StatusBadRequest

-----------------------------------------------------------------------------
(* Validators. *)

\* Basic.valid comparing the username alone.
BasicvalidUserOnly(cfg, user, pass) ==
    IF \E e \in cfg.tbl : user = e[1] THEN "" ELSE ErrBadCredentials

\* Basic.valid answering an unknown username with an error of its own.
BasicvalidTellsUnknown(cfg, user, pass) ==
    IF \E e \in cfg.tbl : user = e[1] /\ pass = e[2] THEN ""
    ELSE IF \E e \in cfg.tbl : user = e[1] THEN ErrBadCredentials
    ELSE ErrUnauthorized

\* Basic.valid
Basicvalid(cfg, user, pass) ==
    IF \E e \in cfg.tbl : user = e[1] /\ pass = e[2] THEN "" ELSE ErrBadCredentials

\* JWT.valid asking for every required capability instead of any one.
JWTvalidAll(cfg, caps) ==
    IF Len(cfg.RequiredServiceCapabilities.list) = 0 THEN ""
    ELSE IF \A j \in 1..Len(cfg.RequiredServiceCapabilities.list) :
               \E i \in 1..Len(caps.list) :
                  caps.list[i] = cfg.RequiredServiceCapabilities.list[j]
         THEN ""
         ELSE ErrUnauthorized

\* JWT.valid letting a token with no capabilities claim pass.
JWTvalidAbsentPasses(cfg, caps) ==
    IF Len(cfg.RequiredServiceCapabilities.list) = 0 THEN ""
    ELSE IF caps.isNil THEN ""
    ELSE IF \E i \in 1..Len(caps.list) :
               \E j \in 1..Len(cfg.RequiredServiceCapabilities.list) :
                  caps.list[i] = cfg.RequiredServiceCapabilities.list[j]
         THEN ""
         ELSE ErrUnauthorized

\* JWT.valid
JWTvalid(cfg, caps) ==
    IF Len(cfg.RequiredServiceCapabilities.list) = 0 THEN ""
    ELSE IF \E i \in 1..Len(caps.list) :
               \E j \in 1..Len(cfg.RequiredServiceCapabilities.list) :
                  caps.list[i] = cfg.RequiredServiceCapabilities.list[j]
         THEN ""
         ELSE ErrUnauthorized

\* jwt.ParseString(value, jwt.WithKeySet(keys)): the signature verifies
\* under a key of the set with the token's kid and algorithm, and the
\* token is within its nbf..exp window.
Verifies(t, ks) ==
    \E i \in 1..Len(ks) :
        /\ ks[i].kid = t.kid
        /\ ks[i].alg # ""
        /\ ks[i].alg = t.alg
        /\ ks[i].mat = t.signedBy

InTime(t, at) == t.nbf <= at /\ at < t.exp

ParseJWT(t, ks, at) ==
    IF t.form # "jwt" THEN JWTParseError
    ELSE IF ~Verifies(t, ks) THEN JWTParseError
    ELSE IF ~InTime(t, at) THEN JWTParseError
    ELSE ""

-----------------------------------------------------------------------------
(* The gate: Auth.Then and the handler the middleware decorates.          *)

Authenticated(principal) == [err |-> "", principal |-> principal]
Rejected(err) == [err |-> err, principal |-> ""]

\* The authenticator of Basic.middleware: WithBasic parser, Basic.valid.
BasicAuthenticate(a, h) ==
    IF h.kind = "none" THEN Rejected(ErrMissingCredentials)
    ELSE IF h.kind # "basic" THEN Rejected(UnsupportedSchemeError)
    ELSE IF Basicvalid(a.config.Basic, h.user, h.pass) # ""
        THEN Rejected(Basicvalid(a.config.Basic, h.user, h.pass))
    ELSE Authenticated(h.user)

\* The authenticator of JWT.middleware: Bearer parser over the key set,
\* JWT.valid.
JWTAuthenticate(a, h, ks, at) ==
    IF h.kind = "none" THEN Rejected(ErrMissingCredentials)
    ELSE IF h.kind # "bearer" THEN Rejected(UnsupportedSchemeError)
    ELSE IF ParseJWT(h.token, ks, at) # "" THEN Rejected(ParseJWT(h.token, ks, at))
    ELSE IF JWTvalid(a.config.JWT, h.token.caps) # ""
        THEN Rejected(JWTvalid(a.config.JWT, h.token.caps))
    ELSE Authenticated(h.token.sub)

Forwarded(principal) ==
    [status |-> 0, invoked |-> 1, principal |-> principal, err |-> ""]
ShortCircuit(err) ==
    [status |-> StatusOf(err), invoked |-> 0, principal |-> "", err |-> err]

\* Then choosing the validator by the header of the request: Basic
\* credentials go to the Basic table whenever one is configured.
ThenSchemePerRequest(a, h, ks, at) ==
    IF a.middleware = "nil" THEN Forwarded("")
    ELSE LET r == IF a.middleware = "basic" \/ (h.kind = "basic" /\ ~a.config.Basic.isNil)
                     THEN BasicAuthenticate(a, h)
                  ELSE JWTAuthenticate(a, h, ks, at)
         IN  IF r.err # "" THEN ShortCircuit(r.err) ELSE Forwarded(r.principal)

\* Then with validators that check the configuration New was given, not
\* the one the Auth holds now.
ThenBuiltConfig(a, h, ks, at) ==
    IF a.middleware = "nil" THEN Forwarded("")
    ELSE LET b == [a EXCEPT !.config = config]
             r == IF a.middleware = "basic" THEN BasicAuthenticate(b, h)
                  ELSE JWTAuthenticate(b, h, ks, at)
         IN  IF r.err # "" THEN ShortCircuit(r.err) ELSE Forwarded(r.principal)

\* The gate going on to the protected handler after writing an error.
ThenNoReturn(a, h, ks, at) ==
    IF a.middleware = "nil" THEN Forwarded("")
    ELSE LET r == IF a.middleware = "basic" THEN BasicAuthenticate(a, h)
                  ELSE JWTAuthenticate(a, h, ks, at)
         IN  IF r.err # "" THEN [ShortCircuit(r.err) EXCEPT !.invoked = 1]
             ELSE Forwarded(r.principal)

\* Then wrapping the handler although no middleware was built.
ThenNilRejects(a, h, ks, at) ==
    LET r == IF a.middleware = "basic" THEN BasicAuthenticate(a, h)
             ELSE IF a.middleware = "jwt" THEN JWTAuthenticate(a, h, ks, at)
             ELSE Rejected(ErrMissingCredentials)
    IN  IF r.err # "" THEN ShortCircuit(r.err) ELSE Forwarded(r.principal)

\* Auth.Then(h) serving one request.
Then(a, h, ks, at) ==
    IF a.middleware = "nil" THEN Forwarded("")
    ELSE LET r == IF a.middleware = "basic" THEN BasicAuthenticate(a, h)
                  ELSE JWTAuthenticate(a, h, ks, at)
         IN  IF r.err # "" THEN ShortCircuit(r.err) ELSE Forwarded(r.principal)

\* Whether serving h reads the cached key set.
ReadsKeys(a, h) ==
    a.middleware = "jwt" /\ h.kind = "bearer" /\ h.token.form = "jwt"

-----------------------------------------------------------------------------
(* The state machine of one Auth: construction, then requests, with the   *)
(* clock, the key source and the cache's refresh running alongside.       *)

KeysIdle ==
    /\ kpc = "off"
    /\ keySet = <<>>
    /\ newKeys = <<>>
    /\ mapErr = ""

Init ==
    /\ pc = "start"
    /\ config = ZeroConfig
    /\ auth = NoAuth
    /\ newErr = ""
    /\ source \in Sources
    /\ cache = EmptyCache
    /\ now = 0
    /\ req = NoHeader
    /\ resp = NoResponse
    /\ KeysIdle

New(c) ==
    /\ pc = "start"
    /\ config' = c
    /\ auth' = NewAuth(c).auth
    /\ newErr' = NewAuth(c).err
    /\ pc' = IF NewAuth(c).err = "" THEN "built" ELSE "failed"
    /\ UNCHANGED <<source, cache, now, req, resp>>
    /\ UNCHANGED keyVars

ServeHTTP(h) ==
    /\ pc = "built"
    /\ LET c == IF ReadsKeys(auth, h)
                  THEN CacheGet(cache, source, auth.config.JWT.KeyProvider)
                  ELSE cache
       IN  /\ cache' = c
           /\ resp' = Then(auth, h, c.keys, now)
    /\ req' = h
    /\ UNCHANGED <<pc, config, auth, newErr, source, now>>
    /\ UNCHANGED keyVars

\* The cache's background refresh of the registered URL.
Refresh ==
    /\ pc = "built"
    /\ auth.middleware = "jwt"
    /\ LET f == Fetch(source, auth.config.JWT.KeyProvider) IN
        cache' = IF f.ok THEN [fetched |-> TRUE, keys |-> f.keys] ELSE cache
    /\ UNCHANGED <<pc, config, auth, newErr, source, now, req, resp>>
    /\ UNCHANGED keyVars

\* The key source changes what it serves, or goes down.
SourceChange(s) ==
    /\ pc = "built"
    /\ auth.middleware = "jwt"
    /\ source' = s
    /\ UNCHANGED <<pc, config, auth, newErr, cache, now, req, resp>>
    /\ UNCHANGED keyVars

Tick ==
    /\ pc = "built"
    /\ now < MaxTime
    /\ now' = now + 1
    /\ UNCHANGED <<pc, config, auth, newErr, source, cache, req, resp>>
    /\ UNCHANGED keyVars

Next ==
    \/ \E c \in Configs : New(c)
    \/ \E h \in Requests : ServeHTTP(h)
    \/ Refresh
    \/ \E s \in Sources : SourceChange(s)
    \/ Tick

Spec == Init /\ [][Next]_vars

-----------------------------------------------------------------------------
(* Construction alone, over every configuration. *)

InitNew ==
    /\ pc = "start"
    /\ config = ZeroConfig
    /\ auth = NoAuth
    /\ newErr = ""
    /\ source = Down
    /\ cache = EmptyCache
    /\ now = 0
    /\ req = NoHeader
    /\ resp = NoResponse
    /\ KeysIdle

NextNew == \E c \in AllConfigs : New(c)

SpecNew == InitNew /\ [][NextNew]_vars

-----------------------------------------------------------------------------
(* The post-fetcher alone: mapMissingAlgorithms applied to a fetched key  *)
(* set, and applied again to its own result.                              *)

AuthIdle ==
    /\ pc = "off"
    /\ config = ZeroConfig
    /\ auth = NoAuth
    /\ newErr = ""
    /\ source = Down
    /\ cache = EmptyCache
    /\ now = 0
    /\ req = NoHeader
    /\ resp = NoResponse

InitKeys ==
    /\ AuthIdle
    /\ kpc = "fetched"
    /\ keySet \in KeySets
    /\ newKeys = <<>>
    /\ mapErr = ""

PostFetch ==
    /\ kpc = "fetched"
    /\ newKeys' = mapMissingAlgorithms(keySet).set
    /\ mapErr' = mapMissingAlgorithms(keySet).err
    /\ kpc' = "mapped"
    /\ keySet' = keySetAfter(keySet)
    /\ UNCHANGED authVars

PostFetchAgain ==
    /\ kpc = "mapped"
    /\ mapErr = ""
    /\ keySet' = newKeys
    /\ newKeys' = mapMissingAlgorithms(newKeys).set
    /\ mapErr' = mapMissingAlgorithms(newKeys).err
    /\ kpc' = "remapped"
    /\ UNCHANGED authVars

NextKeys == PostFetch \/ PostFetchAgain

SpecKeys == InitKeys /\ [][NextKeys]_vars

-----------------------------------------------------------------------------
(* One JWT Auth whose required capabilities are replaced between requests, *)
(* as TestJwtAuth does, with the key server up.                             *)

CapsSource == Serving(<<Key("k1", "RSA", "", "RS256", FALSE)>>)

CapsConfigs ==
    {c \in Configs :
        /\ ~c.Disable
        /\ c.Basic.isNil
        /\ c.JWT.KeyProvider.URL # ""
        /\ ~c.JWT.KeyProvider.DisableAutoAddMissingAlgorithm}

CapsRequests ==
    {NoHeader, Header("bearer", "", "", Garbage)}
    \cup {Header("bearer", "", "", Token("jwt", "k1", "RS256", m, 1, 2, "test-subject", c)) :
            m \in {"m1", "forged"}, c \in TokenCaps}

InitCaps ==
    /\ pc = "start"
    /\ config = ZeroConfig
    /\ auth = NoAuth
    /\ newErr = ""
    /\ source = CapsSource
    /\ cache = EmptyCache
    /\ now = 1
    /\ req = NoHeader
    /\ resp = NoResponse
    /\ KeysIdle

\* auth.config.JWT.RequiredServiceCapabilities = l, on the Auth New returned.
SetRequiredServiceCapabilities(l) ==
    /\ pc = "built"
    /\ auth.middleware = "jwt"
    /\ auth' = [auth EXCEPT !.config.JWT.RequiredServiceCapabilities = l]
    /\ UNCHANGED <<pc, config, newErr, source, cache, now, req, resp>>
    /\ UNCHANGED keyVars

NextCaps ==
    \/ \E c \in CapsConfigs : New(c)
    \/ \E h \in CapsRequests : ServeHTTP(h)
    \/ \E l \in CapsValues : SetRequiredServiceCapabilities(l)

SpecCaps == InitCaps /\ [][NextCaps]_vars

-----------------------------------------------------------------------------
(* The key cache of one JWT Auth step by step: a refresh of the registered *)
(* URL gets the document, runs the post-fetcher on it and stores the       *)
(* result, while requests are served alongside.                            *)

RefreshSources ==
    Sources
    \cup {Serving(<<Key("k2", "oct", "", "HS256", FALSE),
                    Key("k1", "RSA", "", "", FALSE)>>)}

\* Configurations with the JWT scheme alone.
RefreshConfigs ==
    {c \in Configs :
        /\ ~c.Disable
        /\ c.Basic.isNil
        /\ c.JWT.KeyProvider.URL # ""
        /\ c.JWT.RequiredServiceCapabilities.isNil}

RefreshRequests ==
    {NoHeader, Header("bearer", "", "", Garbage)}
    \cup {Header("bearer", "", "", Token("jwt", "k1", alg, m, 1, 2, "test-subject", NilCaps)) :
            alg \in {"RS256", "PS256"}, m \in {"m1", "forged"}}

FetchFailed == "fetch failed"

InitRefresh ==
    /\ pc = "start"
    /\ config = ZeroConfig
    /\ auth = NoAuth
    /\ newErr = ""
    /\ source \in RefreshSources
    /\ cache = EmptyCache
    /\ now = 1
    /\ req = NoHeader
    /\ resp = NoResponse
    /\ kpc = "idle"
    /\ keySet = <<>>
    /\ newKeys = <<>>
    /\ mapErr = ""

\* The context New hands to JWT.middleware and so to jwk.NewCache.
CacheContext == "context.Background"

\* ctx.Done() is closed: never, for the background context.
Done(ctx, p) == ctx # "context.Background" /\ p = "shutdown"

\* The process is told to shut down; nothing in the package is told.
Shutdown ==
    /\ pc = "built"
    /\ pc' = "shutdown"
    /\ UNCHANGED <<config, auth, newErr, source, cache, now, req, resp>>
    /\ UNCHANGED keyVars

\* The GET of the registered URL: the parsed document, or a failure.  The
\* cache goes on refreshing until its context is done.
RefreshGet ==
    /\ pc \in {"built", "shutdown"}
    /\ ~Done(CacheContext, pc)
    /\ auth.middleware = "jwt"
    /\ kpc = "idle"
    /\ IF source.up
          THEN kpc' = "fetched" /\ keySet' = source.keys /\ mapErr' = ""
          ELSE kpc' = "failed" /\ keySet' = <<>> /\ mapErr' = FetchFailed
    /\ newKeys' = <<>>
    /\ UNCHANGED authVars

\* The post-fetcher registered by toKeySet, or none when
\* DisableAutoAddMissingAlgorithm is set.
RefreshTransform ==
    IF auth.config.JWT.KeyProvider.DisableAutoAddMissingAlgorithm
    THEN /\ kpc = "fetched"
         /\ newKeys' = keySet
         /\ kpc' = "mapped"
         /\ UNCHANGED <<keySet, mapErr>>
         /\ UNCHANGED authVars
    ELSE PostFetch

\* A refresh that stores what it did not get.
RefreshEndStoresAlways ==
    /\ kpc \in {"mapped", "failed"}
    /\ cache' = [fetched |-> TRUE, keys |-> newKeys]
    /\ kpc' = "idle"
    /\ keySet' = <<>>
    /\ newKeys' = <<>>
    /\ UNCHANGED mapErr
    /\ UNCHANGED <<pc, config, auth, newErr, source, now, req, resp>>

\* The end of a refresh: the new set replaces the cached one when the GET
\* and the post-fetcher succeeded; otherwise the cached one stays, and the
\* error is what is left of the refresh.
RefreshEnd ==
    /\ kpc \in {"mapped", "failed"}
    /\ cache' = IF kpc = "mapped" /\ mapErr = ""
                   THEN [fetched |-> TRUE, keys |-> newKeys]
                   ELSE cache
    /\ kpc' = "idle"
    /\ keySet' = <<>>
    /\ newKeys' = <<>>
    /\ UNCHANGED mapErr
    /\ UNCHANGED <<pc, config, auth, newErr, source, now, req, resp>>

NextRefresh ==
    \/ \E c \in RefreshConfigs : New(c)
    \/ \E h \in RefreshRequests : ServeHTTP(h)
    \/ RefreshGet
    \/ RefreshTransform
    \/ RefreshEnd
    \/ \E s \in RefreshSources : SourceChange(s)
    \/ Shutdown

SpecRefresh == InitRefresh /\ [][NextRefresh]_vars

-----------------------------------------------------------------------------
(* Properties. *)

\* A step that serves a request: only ServeHTTP changes req or resp.
ServeStep == <<req, resp>>' # <<req, resp>>

\* A request has been served.
Served == resp # NoResponse

Elems(list) == {list[i] : i \in 1..Len(list)}

Intersects(required, caps) ==
    Len(required) = 0 \/ Elems(required) \cap Elems(caps) # {}

\* C1: JWT.valid accepts a token with capabilities C under required list R
\* iff R is empty or R and C share an element; otherwise it rejects with
\* ErrUnauthorized.  Stated of every request whose token passed parsing.
C1_ValidIffIntersects ==
    [][(/\ ServeStep
        /\ auth.middleware = "jwt"
        /\ req'.kind = "bearer"
        /\ resp'.err # JWTParseError)
       => LET R == auth.config.JWT.RequiredServiceCapabilities.list
              C == req'.token.caps.list
          IN  /\ resp'.invoked = 1 <=> Intersects(R, C)
              /\ ~Intersects(R, C) => resp'.err = ErrUnauthorized]_vars

C1_Witness ==
    /\ auth.middleware = "jwt"
    /\ auth.config.JWT.RequiredServiceCapabilities.list = <<"admin", "read">>
    /\ req.kind = "bearer"
    /\ req.token.caps.list = <<"write", "read">>
    /\ resp.invoked = 1

KeyFound(t, ks) == \E i \in 1..Len(ks) : ks[i].kid = t.kid

\* C2: the JWT scheme's outcome table: no or non-bearer header 401,
\* malformed token 400, bad signature, expired token or unknown key 401,
\* no required capability 403, otherwise forwarded with the subject as
\* principal.
C2_JWTOutcomeTable ==
    [][(ServeStep /\ auth.middleware = "jwt")
       => LET h == req'
              t == req'.token
              ks == cache'.keys
              R == auth.config.JWT.RequiredServiceCapabilities.list
              authenticated ==
                  h.kind = "bearer" /\ t.form = "jwt" /\ Verifies(t, ks)
                  /\ InTime(t, now)
          IN  /\ h.kind # "bearer" => resp'.status = 401 /\ resp'.invoked = 0
              /\ (h.kind = "bearer" /\ t.form # "jwt")
                    => resp'.status = 400 /\ resp'.invoked = 0
              /\ (h.kind = "bearer" /\ t.form = "jwt"
                  /\ (~KeyFound(t, ks) \/ ~Verifies(t, ks) \/ now >= t.exp))
                    => resp'.status = 401 /\ resp'.invoked = 0
              /\ (authenticated /\ ~Intersects(R, t.caps.list))
                    => resp'.status = 403 /\ resp'.invoked = 0
              /\ (authenticated /\ Intersects(R, t.caps.list))
                    => resp' = Forwarded(t.sub)]_vars

\* C3: a request through a Basic or JWT middleware ends either with the
\* protected handler run exactly once and no status written, and then
\* only for valid credentials that are authorized, or with a status
\* written and the handler not run.
C3_OneTerminalOutcome ==
    [][(ServeStep /\ Protected(auth))
       => LET h == req'
              t == req'.token
              R == auth.config.JWT.RequiredServiceCapabilities.list
              ok == IF auth.middleware = "basic"
                      THEN h.kind = "basic"
                           /\ <<h.user, h.pass>> \in auth.config.Basic.tbl
                      ELSE h.kind = "bearer" /\ t.form = "jwt"
                           /\ Verifies(t, cache'.keys) /\ InTime(t, now)
                           /\ Intersects(R, t.caps.list)
          IN  \/ resp'.invoked = 1 /\ resp'.status = 0 /\ ok
              \/ resp'.invoked = 0 /\ resp'.status \in {400, 401, 403}]_vars

C3_Witness ==
    /\ Protected(auth)
    /\ resp.status = 403
    /\ resp.invoked = 0

\* C4: in the Basic scheme, credentials matching a table entry are
\* forwarded with the username as principal; a wrong password for a known
\* username gets 401; no Authorization header gets 401.
C4_BasicScenario ==
    (auth.middleware = "basic" /\ Served)
    => LET tbl == auth.config.Basic.tbl IN
       /\ (req.kind = "basic" /\ <<req.user, req.pass>> \in tbl)
             => resp = Forwarded(req.user)
       /\ (req.kind = "basic"
           /\ \E e \in tbl : e[1] = req.user /\ e[2] # req.pass)
             => resp.status = 401 /\ resp.invoked = 0
       /\ req.kind = "none" => resp.status = 401 /\ resp.invoked = 0

C4_Witness ==
    /\ auth.middleware = "basic"
    /\ req = Header("basic", "alice", "secret", NoToken)
    /\ resp.invoked = 1
    /\ resp.principal = "alice"

\* C5: Basic validation answers an unknown username and a wrong password
\* for a known username with one and the same response: 401 carrying
\* ErrBadCredentials.
C5_UniformBadCredentials ==
    (/\ auth.middleware = "basic"
     /\ Served
     /\ req.kind = "basic"
     /\ <<req.user, req.pass>> \notin auth.config.Basic.tbl)
    => resp = [status |-> 401, invoked |-> 0, principal |-> "",
               err |-> "ErrBadCredentials"]

C5_Witness ==
    /\ auth.middleware = "basic"
    /\ auth.config.Basic.tbl = {<<"alice", "secret">>}
    /\ req = Header("basic", "bob", "secret", NoToken)
    /\ resp.status = 401

\* C6: an Auth built from Config{Disable: true} has no middleware, and
\* every request, whatever its Authorization header, is forwarded.
C6_DisabledForwardsAll ==
    (pc = "built" /\ config.Disable)
    => /\ ~Protected(auth)
       /\ Served => resp.invoked = 1 /\ resp.status = 0

C6_Witness ==
    /\ pc = "built"
    /\ config.Disable
    /\ req.kind = "bearer"
    /\ req.token.form = "garbage"
    /\ resp.invoked = 1

\* A field of the configuration other than Disable holds a value.
Populated(c) ==
    \/ ~c.Basic.isNil
    \/ c.JWT.KeyProvider.URL # ""
    \/ c.JWT.KeyProvider.RefreshInterval # 0
    \/ c.JWT.KeyProvider.HTTPClient # "zero"
    \/ c.JWT.KeyProvider.DisableAutoAddMissingAlgorithm
    \/ ~c.JWT.RequiredServiceCapabilities.isNil

\* C7: New fails with ErrInvalidConfig and returns no Auth whenever
\* Disable is true and any other field is populated.
C7_DisableWithOthersFails ==
    (pc # "start" /\ config.Disable /\ Populated(config))
    => pc = "failed" /\ newErr = "ErrInvalidConfig" /\ ~auth.built

C7_Witness ==
    /\ pc = "failed"
    /\ config.Disable
    /\ config.Basic.isNil
    /\ config.JWT.KeyProvider = ZeroProvider
    /\ config.JWT.RequiredServiceCapabilities = CapList(<<"read">>)
    /\ newErr = "ErrInvalidConfig"

C9_JWTTakesPrecedence ==
    (/\ pc = "built"
     /\ ~config.Basic.isNil
     /\ config.JWT.KeyProvider.URL # "")
    => /\ auth.middleware = "jwt"
       /\ resp.invoked = 1 => req.kind = "bearer"
       /\ (Served /\ req.kind = "basic")
             => resp.invoked = 0 /\ resp.status = 401

C9_Witness ==
    /\ pc = "built"
    /\ config.Basic.tbl = {<<"alice", "secret">>}
    /\ config.JWT.KeyProvider.URL # ""
    /\ req = Header("basic", "alice", "secret", NoToken)
    /\ resp.status = 401

\* The number of keys the expansion adds for one key of the input.
Width(k) ==
    IF k.alg # "" THEN 1
    ELSE IF k.kty = "RSA" THEN 6
    ELSE Len(keyToAlgs(k).algs)

RECURSIVE Offset(_, _)
\* The number of keys the expansion adds for the keys before position i.
Offset(ks, i) == IF i <= 1 THEN 0 ELSE Offset(ks, i - 1) + Width(ks[i - 1])

\* C10: an RSA key, public or private, with no declared algorithm expands
\* to exactly six keys, one each for RS256, RS384, RS512, PS256, PS384 and
\* PS512, every one with the key-id of the source key; alone in a set it
\* always expands.
C10_RSAExpandsToSix ==
    kpc = "mapped"
    => \A i \in 1..Len(keySet) :
          (keySet[i].kty = "RSA" /\ keySet[i].alg = "")
          => /\ Len(keySet) = 1 => mapErr = "" /\ Len(newKeys) = 6
             /\ mapErr = ""
                => LET off == Offset(keySet, i)
                       six == <<"RS256", "RS384", "RS512",
                                "PS256", "PS384", "PS512">>
                   IN  /\ Len(newKeys) >= off + 6
                       /\ \A j \in 1..6 :
                             /\ newKeys[off + j].alg = six[j]
                             /\ newKeys[off + j].kid = keySet[i].kid
                             /\ newKeys[off + j] = [keySet[i] EXCEPT !.alg = six[j]]
                       /\ Len(newKeys) = Offset(keySet, Len(keySet) + 1)

C10_Witness ==
    /\ kpc = "mapped"
    /\ mapErr = ""
    /\ Len(keySet) = 2
    /\ keySet[1].kid = "k1"
    /\ keySet[2] = Key("k2", "RSA", "", "", TRUE)
    /\ Len(newKeys) = 7
    /\ newKeys[7].kid = "k2"

\* The key that follows the expansion of keySet[i] in newKeys is the first
\* one made from keySet[i + 1]; after the last key newKeys ends.
EndsAt(i, last) ==
    IF i = Len(keySet) THEN Len(newKeys) = last
    ELSE /\ Len(newKeys) > last
         /\ newKeys[last + 1].kid = keySet[i + 1].kid
         /\ newKeys[last + 1].kty = keySet[i + 1].kty
         /\ newKeys[last + 1].crv = keySet[i + 1].crv

\* C11: an EC key with no declared algorithm expands to exactly one key,
\* chosen by its curve: P-256 gives ES256, P-384 gives ES384, P-521 gives
\* ES512, for a private key as for a public key.  On any other curve the
\* expansion fails with the unsupported-key-type error and the key gets no
\* algorithm.
C11_ECByCurve ==
    kpc = "mapped"
    => \A i \in 1..Len(keySet) :
          (keySet[i].kty = "EC" /\ keySet[i].alg = "")
          => LET k == keySet[i]
                 es == CASE k.crv = "P-256" -> "ES256"
                         [] k.crv = "P-384" -> "ES384"
                         [] k.crv = "P-521" -> "ES512"
                         [] OTHER -> ""
                 off == Offset(keySet, i)
             IN  IF es # ""
                 THEN /\ Len(keySet) = 1
                         => mapErr = "" /\ newKeys = <<[k EXCEPT !.alg = es]>>
                      /\ mapErr = ""
                         => /\ Len(newKeys) > off
                            /\ newKeys[off + 1] = [k EXCEPT !.alg = es]
                            /\ EndsAt(i, off + 1)
                 ELSE /\ mapErr = "unsupported key type"
                      /\ newKeys = keySet

C11_Witness ==
    /\ kpc = "mapped"
    /\ mapErr = ""
    /\ keySet = <<Key("k1", "EC", "P-384", "", TRUE),
                  Key("k2", "EC", "P-521", "", FALSE)>>
    /\ newKeys = <<Key("k1", "EC", "P-384", "ES384", TRUE),
                   Key("k2", "EC", "P-521", "ES512", FALSE)>>

\* C12: an OKP key with no declared algorithm expands to exactly one key,
\* with EdDSA.  A key with no declared algorithm whose type is none of RSA,
\* EC and OKP makes the expansion fail with the unsupported-key-type error
\* and gets no algorithm.
C12_OKPAndUnknownTypes ==
    kpc = "mapped"
    => \A i \in 1..Len(keySet) :
          LET k == keySet[i]
              off == Offset(keySet, i)
          IN  /\ (k.kty = "OKP" /\ k.alg = "")
                 => /\ Len(keySet) = 1
                       => mapErr = "" /\ newKeys = <<[k EXCEPT !.alg = "EdDSA"]>>
                    /\ mapErr = ""
                       => /\ Len(newKeys) > off
                          /\ newKeys[off + 1] = [k EXCEPT !.alg = "EdDSA"]
                          /\ EndsAt(i, off + 1)
              /\ (k.kty \notin {"RSA", "EC", "OKP"} /\ k.alg = "")
                 => /\ mapErr = "unsupported key type"
                    /\ newKeys = keySet

C12_Witness ==
    /\ kpc = "mapped"
    /\ mapErr = ""
    /\ keySet = <<Key("k2", "OKP", "Ed25519", "", FALSE),
                  Key("k1", "RSA", "", "RS256", FALSE)>>
    /\ newKeys = <<Key("k2", "OKP", "Ed25519", "EdDSA", FALSE),
                   Key("k1", "RSA", "", "RS256", FALSE)>>

\* C13: mapMissingAlgorithms applied to a set in which every key declares
\* an algorithm returns the same keys with the same algorithms, in the same
\* order, none added, dropped or changed; so applying it to its own result
\* gives that result again.
C13_Idempotent ==
    /\ (kpc = "mapped" /\ \A i \in 1..Len(keySet) : keySet[i].alg # "")
       => mapErr = "" /\ newKeys = keySet
    /\ kpc = "remapped" => mapErr = "" /\ newKeys = keySet

C13_Witness ==
    /\ kpc = "remapped"
    /\ Len(keySet) = 7
    /\ keySet[1] = Key("k1", "RSA", "", "RS256", FALSE)
    /\ keySet[7] = Key("k2", "EC", "P-256", "ES256", FALSE)
    /\ newKeys = keySet

\* A key the expansion can handle: it declares an algorithm, or its type
\* and curve are among the supported ones.
Inferable(k) ==
    \/ k.alg # ""
    \/ k.kty \in {"RSA", "OKP"}
    \/ k.kty = "EC" /\ k.crv \in {"P-256", "P-384", "P-521"}

\* C14: when a key of the fetched set has no declared algorithm and an
\* unsupported type or curve, only that key is left out: the expansion
\* reports no error and returns every other key, expanded as usual.
C14_OnlyFailingKeyDropped ==
    kpc = "mapped"
    => /\ mapErr = ""
       /\ newKeys = mapMissingAlgorithms(SelectSeq(keySet, Inferable)).set

\* The configuration of the Auth leaves algorithm inference on.
Inferring == ~auth.config.JWT.KeyProvider.DisableAutoAddMissingAlgorithm

\* C15 as stated: every key of the served key set has a non-empty signing
\* algorithm, and no key that lacks one and has an unsupported type or curve
\* is served.
C15_ServedKeysHaveAlg ==
    \A i \in 1..Len(cache.keys) :
        /\ cache.keys[i].alg # ""
        /\ Inferable(cache.keys[i])

\* C15: while DisableAutoAddMissingAlgorithm is not set, every key of the
\* served key set has a non-empty signing algorithm, and no key that lacks
\* one and has an unsupported type or curve is served.
C15_ServedKeysHaveAlgWhenInferring ==
    (pc = "built" /\ Inferring)
    => \A i \in 1..Len(cache.keys) :
          /\ cache.keys[i].alg # ""
          /\ Inferable(cache.keys[i])

C15_Witness ==
    /\ pc = "built"
    /\ Inferring
    /\ cache.fetched
    /\ Len(cache.keys) = 7
    /\ cache.keys[1] = Key("k2", "oct", "", "HS256", FALSE)
    /\ cache.keys[7] = Key("k1", "RSA", "", "PS512", FALSE)

\* The refresh that ends in this step failed: its GET did, or its
\* post-fetcher.
FailedRefreshEnds ==
    /\ kpc \in {"mapped", "failed"}
    /\ kpc' = "idle"
    /\ kpc = "failed" \/ mapErr # ""

\* C16: once a key set is served, a refresh that fails (the source cannot
\* be reached or answers with no usable document, or the processing of the
\* fetched keys fails) leaves the served set exactly as it was: it is
\* replaced only by the complete result of a refresh that succeeded, and
\* never emptied.
C16_FailedRefreshKeepsSnapshot ==
    [][cache.fetched
       => /\ cache'.fetched
          /\ FailedRefreshEnds => cache' = cache
          /\ cache' # cache
             => /\ kpc = "mapped" /\ mapErr = "" /\ kpc' = "idle"
                /\ cache'.keys = newKeys]_vars

C16_Witness ==
    /\ kpc = "idle"
    /\ mapErr = FetchFailed
    /\ source = Down
    /\ cache.fetched
    /\ Len(cache.keys) = 6
    /\ cache.keys[4] = Key("k1", "RSA", "", "PS256", FALSE)

\* C17: while no fetch of the key set has ever succeeded, every request to
\* an Auth with the JWT scheme, whatever token it carries, is answered with
\* 401 and the protected handler is not invoked.
C17_ColdStartUnauthorized ==
    [][(ServeStep /\ auth.middleware = "jwt" /\ ~cache'.fetched)
       => /\ resp'.status = 401
          /\ resp'.invoked = 0]_vars

\* C18: the served key set changes only at the end of a refresh, which
\* puts the complete set the refresh built in its place; serving a request
\* never changes it, so a validation sees the set from before a refresh or
\* the set from after it.
C18_RefreshIsOnlyWriter ==
    [][cache' # cache
       => /\ kpc = "mapped" /\ mapErr = "" /\ kpc' = "idle"
          /\ cache'.keys = newKeys
          /\ ~ServeStep]_vars

\* C19: serving a request fetches no keys: the first request after
\* construction included, it reads the key set that is cached and leaves
\* the cache as it was.
C19_RequestsOnlyReadCache ==
    [][ServeStep => cache' = cache]_vars

\* C20: the construction of an Auth with the JWT scheme runs the first
\* refresh: when New returns, a fetch of the key set was made or is under
\* way.
C20_RefreshAtConstruction ==
    [][(pc = "start" /\ pc' = "built" /\ auth'.middleware = "jwt")
       => \/ cache'.fetched
          \/ kpc' # "idle"
          \/ mapErr' # ""]_vars

\* C21: after the shutdown signal the refresh loop starts no further
\* fetch of the key set.
C21_NoFetchAfterShutdown ==
    [][pc = "shutdown" => ~(kpc = "idle" /\ kpc' # "idle")]_vars

\* The scheme New chooses for a configuration it accepts.
SchemeOf(c) ==
    IF c.JWT.KeyProvider.URL # "" THEN "jwt"
    ELSE IF ~c.Basic.isNil THEN "basic"
    ELSE "nil"

\* C22: the scheme of an Auth is the one New chose from the configuration;
\* no step after construction changes it, and every request is decided by
\* it: with no scheme every request is forwarded, under Basic only Basic
\* credentials are ever forwarded, under JWT only bearer tokens.
C22_SchemeFixedAtConstruction ==
    [][pc = "built"
       => /\ auth.middleware = SchemeOf(config)
          /\ auth'.middleware = auth.middleware
          /\ config' = config
          /\ ServeStep
             => CASE auth.middleware = "nil" ->
                        resp'.invoked = 1 /\ resp'.status = 0
                  [] auth.middleware = "basic" ->
                        resp'.invoked = 1 => req'.kind = "basic"
                  [] auth.middleware = "jwt" ->
                        resp'.invoked = 1 => req'.kind = "bearer"]_vars

C22_Witness ==
    /\ pc = "built"
    /\ auth.middleware = "jwt"
    /\ ~config.Basic.isNil
    /\ cache.fetched
    /\ source = Down
    /\ now = 1
    /\ req.kind = "bearer"
    /\ resp.invoked = 1

\* The token is a JWT signed with the material of a served key that has its
\* key-id and its algorithm.
CorrectlySigned(t, ks) ==
    /\ t.form = "jwt"
    /\ \E i \in 1..Len(ks) :
          /\ ks[i].kid = t.kid
          /\ ks[i].alg = t.alg
          /\ t.signedBy = "m1"
          /\ ks[i].mat = "m1"

\* C23: a correctly signed token is forwarded only while the clock is at or
\* after its nbf and before its exp; outside that window it is answered 401
\* and the handler is not invoked, whatever capabilities it carries.
C23_TimeWindow ==
    [][(ServeStep /\ auth.middleware = "jwt" /\ req'.kind = "bearer"
          /\ CorrectlySigned(req'.token, cache'.keys))
       => LET t == req'.token IN
          /\ resp'.invoked = 1 => (t.nbf <= now /\ now < t.exp)
          /\ ~(t.nbf <= now /\ now < t.exp)
             => resp'.status = 401 /\ resp'.invoked = 0]_vars

\* The algorithms inference gives a key with no declared algorithm.
InferredAlgs(k) ==
    CASE k.kty = "RSA" -> <<"RS256", "RS384", "RS512", "PS256", "PS384", "PS512">>
      [] k.kty = "OKP" -> <<"EdDSA">>
      [] k.kty = "EC" /\ k.crv = "P-256" -> <<"ES256">>
      [] k.kty = "EC" /\ k.crv = "P-384" -> <<"ES384">>
      [] k.kty = "EC" /\ k.crv = "P-521" -> <<"ES512">>
      [] OTHER -> <<>>

RECURSIVE ExpandedKeys(_)
\* A key set with every declared key kept and every other key replaced by
\* one clone for each inferred algorithm.
ExpandedKeys(ks) ==
    IF ks = <<>> THEN <<>>
    ELSE LET k == Head(ks)
             algs == InferredAlgs(k)
         IN  (IF k.alg # "" THEN <<k>>
              ELSE [j \in 1..Len(algs) |-> [k EXCEPT !.alg = algs[j]]])
             \o ExpandedKeys(Tail(ks))

\* C24: whenever a fetched key set is put in the cache, by the end of a
\* refresh or by the first read of a request, it is the fetched
\* set unmodified when DisableAutoAddMissingAlgorithm is true, keys with no
\* algorithm included, and otherwise the fetched set with every declared
\* key as it is and every key with no algorithm replaced by one clone per
\* inferred algorithm.
C24_InferenceIffNotDisabled ==
    [][cache' # cache
       => LET raw == IF kpc' # kpc THEN keySet ELSE source.keys IN
          IF auth.config.JWT.KeyProvider.DisableAutoAddMissingAlgorithm
          THEN cache'.keys = raw
          ELSE cache'.keys = ExpandedKeys(raw)]_vars

C24_Witness ==
    /\ pc = "built"
    /\ ~Inferring
    /\ cache.fetched
    /\ cache.keys = <<Key("k2", "oct", "", "HS256", FALSE),
                      Key("k1", "RSA", "", "", FALSE)>>
    /\ mapErr = ""
    /\ kpc = "idle"
    /\ resp = NoResponse

\* C25: a correctly signed token within its time window that has no
\* capabilities claim is forwarded, with its subject as principal, when
\* RequiredServiceCapabilities is empty, and is answered 403 with the
\* handler not invoked when RequiredServiceCapabilities is non-empty.
C25_AbsentCapabilitiesClaim ==
    [][(ServeStep /\ auth.middleware = "jwt" /\ req'.kind = "bearer"
          /\ CorrectlySigned(req'.token, cache'.keys)
          /\ req'.token.nbf <= now /\ now < req'.token.exp
          /\ req'.token.caps.isNil)
       => IF Len(auth.config.JWT.RequiredServiceCapabilities.list) = 0
          THEN /\ resp'.invoked = 1
               /\ resp'.status = 0
               /\ resp'.principal = req'.token.sub
          ELSE /\ resp'.status = 403
               /\ resp'.invoked = 0]_vars

C25_Witness ==
    /\ pc = "built"
    /\ auth.middleware = "jwt"
    /\ auth.config.JWT.RequiredServiceCapabilities = CapList(<<"read">>)
    /\ req.kind = "bearer"
    /\ req.token.form = "jwt"
    /\ req.token.caps.isNil
    /\ req.token.signedBy = "m1"
    /\ now = 1
    /\ resp.status = 403
    /\ resp.err = ErrUnauthorized

\* C26: an Auth that New returned for a configuration with Disable false
\* has a middleware, so Protected() is true, whatever else the
\* configuration holds.
C26_EnabledMeansProtected ==
    (pc = "built" /\ ~config.Disable) => Protected(auth)

\* C27: a request is decided against the required capabilities the Auth
\* holds when the request is served: after the list is replaced, a request
\* with a correctly signed token is answered 403 when the new list is not
\* empty and shares nothing with the token's capabilities, and is forwarded
\* when the new list is empty or shares one.
C27_RequiredListReadPerRequest ==
    [][(ServeStep /\ auth.middleware = "jwt" /\ req'.kind = "bearer"
          /\ CorrectlySigned(req'.token, cache'.keys))
       => LET required == auth.config.JWT.RequiredServiceCapabilities.list
              caps == req'.token.caps.list
          IN  IF required = <<>> \/ Elems(required) \cap Elems(caps) # {}
              THEN resp'.invoked = 1 /\ resp'.status = 0
              ELSE resp'.invoked = 0 /\ resp'.status = 403]_vars

C27_Witness ==
    /\ pc = "built"
    /\ config.JWT.RequiredServiceCapabilities = NilCaps
    /\ auth.config.JWT.RequiredServiceCapabilities = CapList(<<"read">>)
    /\ req.token.signedBy = "m1"
    /\ req.token.caps = CapList(<<"write">>)
    /\ resp.status = 403
    /\ resp.invoked = 0

\* C28: mapMissingAlgorithms leaves the keys of its input as they were.
\* When it succeeds it returns a set in input order in which every key
\* that declared an algorithm is kept and every other key stands only as
\* its clones, each with an algorithm; when it fails it returns the input
\* set itself with the error, not a partly expanded set.
C28_InputUnchanged ==
    [][(kpc = "fetched" /\ kpc' = "mapped")
       => /\ keySet' = keySet
          /\ mapErr' = ""
             => /\ newKeys' = ExpandedKeys(keySet)
                /\ \A j \in 1..Len(newKeys') : newKeys'[j].alg # ""
          /\ mapErr' # "" => newKeys' = keySet]_vars

C28_Witness ==
    /\ kpc = "mapped"
    /\ mapErr = "unsupported key type"
    /\ keySet = <<Key("k1", "RSA", "", "", FALSE),
                  Key("k2", "EC", "secp256k1", "", FALSE)>>
    /\ newKeys = keySet

====
